---- MODULE Spec2Model ----
(***************************************************************************)
(* Model of the x402 Solana facilitator                                    *)
(* (src/fullstack/servers/express/real-facilitator.js): the payload        *)
(* normalizer extractTransactionData, the /verify, /settle and             *)
(* /create-sponsored-transaction handlers and the settlement polling loop  *)
(* settleSolanaTransaction.  Each handler is cut at its await points: one  *)
(* action runs the synchronous code between two awaits.  The ledger's      *)
(* answers to RPC calls are inputs chosen with \E.                         *)
(***************************************************************************)
EXTENDS Integers, FiniteSets, Sequences, TLC

----------------------------------------------------------------------------
(* JavaScript values of payload fields.  ABSENT is a key that is not in    *)
(* the object (reads as undefined); FALSY is a key that is present with a  *)
(* falsy value (null, "", 0); everything else is truthy.                   *)

ABSENT == "<absent>"
FALSY == "<falsy>"

Truthy(v) == v \notin {ABSENT, FALSY}

\* a || b
Or(a, b) == IF Truthy(a) THEN a ELSE b

(* The facilitator's public key (facilitatorKeypair.publicKey) and another *)
(* account.                                                                *)
facilitatorKeypair == "FacilitatorPubKey"
OtherKey == "OtherPubKey"

(* Network identifiers a request can carry.  connections[network] is a     *)
(* Connection for the three registered names, undefined for an unknown     *)
(* name, and an inherited Object.prototype member (truthy, but no          *)
(* Connection) for a name such as "constructor".                           *)
connections == {"solana-devnet", "solana-mainnet", "solana-testnet"}
ProtoNetworks == {"constructor"}
NonStringNetwork == "<number>"

\* StartsWithSolana with a bug: the prefix tested for is empty
StartsWithSolana_EmptyPrefix(network) == TRUE

StartsWithSolana(network) ==
    network \in connections \cup {"solana-unknown"}

\* connections[network] is truthy
HasConnection(network) == network \in connections \cup ProtoNetworks

\* connections[network] is a Connection object whose RPC methods exist
IsConnection(network) == network \in connections

----------------------------------------------------------------------------
(* Encoded transactions (base64 strings) and what Transaction.from makes   *)
(* of them.                                                                *)

TxFac == "tx:feePayer=facilitator"
TxOther == "tx:feePayer=other"
TxNoPayer == "tx:noFeePayer"
TxUnsigned == "tx:feePayer=facilitator,unsigned"
TxGarbage == "tx:garbage"

EncodedTxs == {TxFac, TxOther, TxNoPayer, TxUnsigned, TxGarbage}

\* Buffer.from(x, 'base64') followed by Transaction.from: throws on bytes
\* that are no transaction
DecodeThrows(enc) == enc \notin {TxFac, TxOther, TxNoPayer, TxUnsigned}

\* transaction.feePayer of the decoded transaction (ABSENT: undefined, a
\* message with no required signer)
FeePayerOf(enc) ==
    CASE enc = TxFac -> facilitatorKeypair
      [] enc = TxUnsigned -> facilitatorKeypair
      [] enc = TxOther -> OtherKey
      [] OTHER -> ABSENT

\* transaction.serialize() with the default requireAllSignatures: throws
\* when a required signature is missing
SerializeThrows(enc) == enc = TxUnsigned

\* the signature sendRawTransaction returns for a transaction: its first
\* signature, which need not be the one the payload claims
SigOf(enc) == IF enc = TxFac THEN "SigFac" ELSE "SigOther"

----------------------------------------------------------------------------
(* Payload documents: paymentPayload.payload as a function from field name *)
(* to value.                                                               *)

CondFields == {"userSignature", "facilitatorTransaction", "userPublicKey",
               "signature", "transaction", "payer", "authorization"}
CopyFields == {"amount", "mint", "recipient", "blockhash", "memo"}
PayloadFields == CondFields \cup CopyFields \cup {"foo"}

\* fields of the normalized record
NormFields == {"userSignature", "facilitatorTransaction", "userPublicKey",
               "signature", "transaction", "payer", "amount", "mint",
               "recipient", "blockhash", "memo"}

\* payload.authorization values: an object with from/to/value/nonce, or a
\* truthy value without them
AuthFull == "auth:{from,to,value,nonce}"
AuthEmpty == "auth:{}"

\* AuthField with a bug: authorization.to is read where authorization.from
\* is meant
AuthField_ToForFrom(auth, f) ==
    IF auth = AuthFull
    THEN "auth." \o (IF f = "from" THEN "to" ELSE f)
    ELSE ABSENT

AuthField(auth, f) ==
    IF auth = AuthFull THEN "auth." \o f ELSE ABSENT

EmptyPayload == [f \in PayloadFields |-> ABSENT]

\* Object.keys with a bug: only the fields with a truthy value are listed
ObjectKeys_TruthyOnly(payload) == {f \in DOMAIN payload : Truthy(payload[f])}

\* Object.keys(payload)
ObjectKeys(payload) == {f \in DOMAIN payload : payload[f] # ABSENT}

NoData == [f \in NormFields |-> ABSENT]

Extracted(format, data) ==
    [error |-> "none", fields |-> {}, format |-> format, data |-> data]

ExtractError(msg, fields) ==
    [error |-> msg, fields |-> fields, format |-> "none", data |-> NoData]

MissingPayloadMsg == "Missing payload in payment"
UnrecognizedMsg == "Unrecognized payload format. Available fields: "

\* extractTransactionData with a bug: the minimal shape is tried before
\* the facilitator_sponsored one
extractTransactionData_MinimalFirst(hasPayload, payload) ==
    IF ~hasPayload THEN ExtractError(MissingPayloadMsg, {})
    ELSE IF /\ Truthy(payload["signature"])
            /\ Truthy(payload["transaction"])
            /\ ~Truthy(payload["payer"])
    THEN Extracted("minimal",
           [f \in NormFields |->
              IF f \in {"signature", "transaction"} THEN payload[f] ELSE ABSENT])
    ELSE IF /\ Truthy(payload["userSignature"])
            /\ Truthy(payload["facilitatorTransaction"])
            /\ Truthy(payload["userPublicKey"])
    THEN Extracted("facilitator_sponsored",
           [f \in NormFields |->
              IF f \in {"userSignature", "facilitatorTransaction", "userPublicKey"}
              THEN payload[f] ELSE ABSENT])
    ELSE IF /\ Truthy(payload["signature"])
            /\ Truthy(payload["transaction"])
            /\ Truthy(payload["payer"])
    THEN Extracted("full",
           [f \in NormFields |->
              IF f \in {"signature", "transaction", "payer", "amount", "mint",
                        "recipient", "blockhash", "memo"}
              THEN payload[f] ELSE ABSENT])
    ELSE IF /\ Truthy(payload["signature"])
            /\ Truthy(payload["authorization"])
            /\ ~Truthy(payload["transaction"])
    THEN Extracted("authorization_only",
           [f \in NormFields |->
              CASE f = "signature" -> payload["signature"]
                [] f = "payer" -> AuthField(payload["authorization"], "from")
                [] f = "recipient" -> AuthField(payload["authorization"], "to")
                [] f = "amount" -> AuthField(payload["authorization"], "value")
                [] f = "memo" -> AuthField(payload["authorization"], "nonce")
                [] OTHER -> ABSENT])
    ELSE ExtractError(UnrecognizedMsg, {f \in DOMAIN payload : payload[f] # ABSENT})

(* extractTransactionData(paymentPayload): hasPayload is the truthiness of *)
(* paymentPayload.payload.                                                 *)
extractTransactionData(hasPayload, payload) ==
    IF ~hasPayload THEN ExtractError(MissingPayloadMsg, {})
    ELSE IF /\ Truthy(payload["userSignature"])
            /\ Truthy(payload["facilitatorTransaction"])
            /\ Truthy(payload["userPublicKey"])
    THEN Extracted("facilitator_sponsored",
           [f \in NormFields |->
              IF f \in {"userSignature", "facilitatorTransaction", "userPublicKey"}
              THEN payload[f] ELSE ABSENT])
    ELSE IF /\ Truthy(payload["signature"])
            /\ Truthy(payload["transaction"])
            /\ ~Truthy(payload["payer"])
    THEN Extracted("minimal",
           [f \in NormFields |->
              IF f \in {"signature", "transaction"} THEN payload[f] ELSE ABSENT])
    ELSE IF /\ Truthy(payload["signature"])
            /\ Truthy(payload["transaction"])
            /\ Truthy(payload["payer"])
    THEN Extracted("full",
           [f \in NormFields |->
              IF f \in {"signature", "transaction", "payer", "amount", "mint",
                        "recipient", "blockhash", "memo"}
              THEN payload[f] ELSE ABSENT])
    ELSE IF /\ Truthy(payload["signature"])
            /\ Truthy(payload["authorization"])
            /\ ~Truthy(payload["transaction"])
    THEN Extracted("authorization_only",
           [f \in NormFields |->
              CASE f = "signature" -> payload["signature"]
                [] f = "payer" -> AuthField(payload["authorization"], "from")
                [] f = "recipient" -> AuthField(payload["authorization"], "to")
                [] f = "amount" -> AuthField(payload["authorization"], "value")
                [] f = "memo" -> AuthField(payload["authorization"], "nonce")
                [] OTHER -> ABSENT])
    ELSE ExtractError(UnrecognizedMsg, ObjectKeys(payload))

----------------------------------------------------------------------------
(* Program constants.                                                      *)

\* settleSolanaTransaction's options.timeout, in milliseconds
timeout == 30000
\* the polling loop's setTimeout, in milliseconds
PollInterval == 2000

(* Bounds of the model.                                                    *)

\* the largest number of steps by which one getSignatureStatus call can be
\* late, each step as long as the whole timeout
MaxLatencySteps == 1

StatusLatencies == {k * timeout : k \in 0..MaxLatencySteps}

\* the number of requests the clients send in one run
MaxRequests == 3

----------------------------------------------------------------------------
(* State.                                                                  *)

VARIABLES
    pc,        \* pc[r]: where the handler of the request in slot r is suspended
    endpoint,  \* endpoint[r]: the route of request r
    body,      \* body[r]: req.body of request r
    loc,       \* loc[r]: the handler's local variables that outlive an await
    resp,      \* resp[r]: the responses sent for request r, in order
    calls,     \* calls[r]: RPC calls request r has issued, per method
    ledger,    \* ledger[tx]: how often the ledger has accepted a broadcast of tx
    served,    \* the number of requests received so far
    hist,      \* hist[r]: what the status queries of request r have observed
    npayload,  \* the payload document handed to extractTransactionData
    nresult    \* what extractTransactionData returned for npayload

vars == <<pc, endpoint, body, loc, resp, calls, ledger, served, hist,
          npayload, nresult>>

serverVars == <<pc, endpoint, body, loc, resp, calls, ledger, served, hist>>
normVars == <<npayload, nresult>>

----------------------------------------------------------------------------
(* Request bodies.  For /verify and /settle, network is                    *)
(* paymentPayload.network; for /create-sponsored-transaction it is         *)
(* paymentRequirements.network.                                            *)

Body(hasPP, hasReq, network, hasPayload, payload) ==
    [hasPaymentPayload |-> hasPP, hasRequirements |-> hasReq,
     network |-> network, hasPayload |-> hasPayload, payload |-> payload,
     userPublicKey |-> ABSENT, requirementsValid |-> FALSE]

CreateBody(userPublicKey, hasReq, network, valid) ==
    [hasPaymentPayload |-> FALSE, hasRequirements |-> hasReq,
     network |-> network, hasPayload |-> FALSE, payload |-> EmptyPayload,
     userPublicKey |-> userPublicKey, requirementsValid |-> valid]

NoBody == Body(FALSE, FALSE, ABSENT, FALSE, EmptyPayload)

With1(f1, v1) == [EmptyPayload EXCEPT ![f1] = v1]
With2(f1, v1, f2, v2) == [With1(f1, v1) EXCEPT ![f2] = v2]
With3(f1, v1, f2, v2, f3, v3) == [With2(f1, v1, f2, v2) EXCEPT ![f3] = v3]

Sponsored(enc) ==
    With3("userSignature", "UserSig", "facilitatorTransaction", enc,
          "userPublicKey", "UserPubKey")
Minimal(enc) == With2("signature", "SigClaimed", "transaction", enc)
Full(enc) == [Minimal(enc) EXCEPT !["payer"] = "PayerAddr", !["amount"] = "100"]
AuthOnly(auth) == With2("signature", "SigClaimed", "authorization", auth)

(* The payload documents requests carry: every recognized shape with every *)
(* kind of embedded transaction it is decided on, documents matching two   *)
(* shapes, and documents matching none.                                    *)
Payloads ==
    {Sponsored(enc) : enc \in EncodedTxs}
    \cup {Minimal(TxOther), Minimal(TxGarbage), Full(TxOther), Full(TxUnsigned)}
    \cup {AuthOnly(AuthFull), AuthOnly(AuthEmpty)}
    \cup {[Sponsored(TxFac) EXCEPT !["signature"] = "SigClaimed",
                                   !["transaction"] = TxOther],
          [Minimal(TxOther) EXCEPT !["authorization"] = AuthFull]}
    \cup {EmptyPayload, With1("foo", "bar"),
          With2("signature", FALSY, "transaction", TxOther),
          With2("signature", "SigClaimed", "payer", "PayerAddr"),
          With2("userSignature", "UserSig", "facilitatorTransaction", TxFac),
          With3("transaction", TxOther, "authorization", AuthFull, "memo", FALSY)}

PaymentBodies ==
    {Body(TRUE, TRUE, "solana-devnet", TRUE, p) : p \in Payloads}
    \cup {Body(TRUE, TRUE, n, TRUE, p) :
            n \in {ABSENT, NonStringNetwork, "ethereum", "solana-unknown",
                   "constructor"},
            p \in {Sponsored(TxFac), AuthOnly(AuthFull), EmptyPayload}}
    \cup {Body(TRUE, TRUE, "solana-devnet", FALSE, EmptyPayload),
          Body(TRUE, FALSE, "solana-devnet", TRUE, Minimal(TxOther)),
          Body(TRUE, FALSE, "ethereum", TRUE, EmptyPayload),
          Body(TRUE, FALSE, "solana-unknown", FALSE, EmptyPayload),
          Body(FALSE, TRUE, ABSENT, FALSE, EmptyPayload),
          Body(FALSE, FALSE, ABSENT, FALSE, EmptyPayload)}

CreateBodies ==
    {CreateBody(k, hasReq, n, v) :
        k \in {ABSENT, "UserPubKey", "notAPublicKey", facilitatorKeypair},
        hasReq \in BOOLEAN,
        n \in {"solana-devnet", "solana-unknown", "constructor"},
        v \in BOOLEAN}

----------------------------------------------------------------------------
(* Responses.  ok is isValid (/verify) or success (/settle, /create-...);  *)
(* reason is invalidReason, errorReason or error, with the interpolated    *)
(* part of the message in detail and, for a format error, the listed field *)
(* names in fields.  A field the response does not carry is ABSENT (FALSE  *)
(* for the two flags).                                                     *)

Reject(reason, detail, fields) ==
    [http |-> 400, ok |-> FALSE, reason |-> reason, detail |-> detail,
     fields |-> fields, transaction |-> ABSENT, network |-> ABSENT,
     payer |-> ABSENT, confirmationStatus |-> ABSENT, slot |-> ABSENT,
     gasSponsoredByFacilitator |-> FALSE, userPaidGas |-> FALSE]

NoLoc ==
    [format |-> "none", data |-> NoData, tx |-> ABSENT, signature |-> ABSENT,
     elapsed |-> 0, confirmed |-> FALSE, confirmationStatus |-> ABSENT,
     slot |-> ABSENT, blockTime |-> ABSENT, fees |-> ABSENT]

RpcMethods == {"simulateTransaction", "getTransaction", "sendRawTransaction",
               "getSignatureStatus", "getLatestBlockhash"}

NoCalls == [m \in RpcMethods |-> 0]

\* the handler issues RPC call m (getSignatureStatus is only recorded as
\* issued: the polling loop repeats it)
Call(c, m) ==
    [c EXCEPT ![m] = IF m = "getSignatureStatus" THEN 1 ELSE @ + 1]

(* What a synchronous stretch of a handler leaves behind: the next await   *)
(* (or done/fault), the response it sent if any, its locals and the RPC    *)
(* call it issued if any.  A handler that has responded keeps the values   *)
(* it computed; the polling clock ends with settleSolanaTransaction.       *)
Respond(response, l) ==
    [pc |-> "done", resp |-> <<response>>, loc |-> [l EXCEPT !.elapsed = 0],
     call |-> "none"]

Await(at, l, method) ==
    [pc |-> at, resp |-> <<>>, loc |-> l, call |-> method]

\* the handler's promise rejects with nobody to catch it: no response
Unhandled == [pc |-> "fault", resp |-> <<>>, loc |-> NoLoc, call |-> "none"]

----------------------------------------------------------------------------
(* POST /verify.                                                           *)

\* VerifyAccept with a bug: the payer falls back to 'unknown' without
\* looking at payload.authorization.from
VerifyAccept_NoAuthorizationFallback(b, l) ==
    [http |-> 200, ok |-> TRUE, reason |-> ABSENT, detail |-> ABSENT,
     fields |-> {}, transaction |-> ABSENT, network |-> ABSENT,
     payer |-> IF l.format = "facilitator_sponsored"
               THEN facilitatorKeypair
               ELSE Or(l.data["payer"], "unknown"),
     confirmationStatus |-> ABSENT, slot |-> ABSENT,
     gasSponsoredByFacilitator |-> l.format = "facilitator_sponsored",
     userPaidGas |-> FALSE]

VerifyAccept(b, l) ==
    [http |-> 200, ok |-> TRUE, reason |-> ABSENT, detail |-> ABSENT,
     fields |-> {}, transaction |-> ABSENT, network |-> ABSENT,
     payer |-> IF l.format = "facilitator_sponsored"
               THEN facilitatorKeypair
               ELSE Or(l.data["payer"],
                       Or(AuthField(b.payload["authorization"], "from"),
                          "unknown")),
     confirmationStatus |-> ABSENT, slot |-> ABSENT,
     gasSponsoredByFacilitator |-> l.format = "facilitator_sponsored",
     userPaidGas |-> FALSE]

\* the inner catch (validationError) of /verify
VerifyValidationFailed(message, l) ==
    Respond(Reject("Transaction validation failed: ", message, {}), l)

\* VerifySponsored with a bug: the fee payer is not compared
VerifySponsored_NoFeePayerCheck(l) ==
    LET enc == l.data["facilitatorTransaction"] IN
    IF DecodeThrows(enc)
    THEN VerifyValidationFailed("Transaction.from", l)
    ELSE Await("v_sim", [l EXCEPT !.tx = enc], "simulateTransaction")

(* The facilitator_sponsored branch of /verify up to its first await:      *)
(* decode, compare the fee payer, then simulate.                           *)
VerifySponsored(l) ==
    LET enc == l.data["facilitatorTransaction"] IN
    IF DecodeThrows(enc)
    THEN VerifyValidationFailed("Transaction.from", l)
    ELSE IF FeePayerOf(enc) = ABSENT
    THEN VerifyValidationFailed("Cannot read properties of undefined (reading 'equals')", l)
    ELSE IF FeePayerOf(enc) # facilitatorKeypair
    THEN Respond(Reject("Transaction fee payer is not the facilitator", ABSENT, {}), l)
    ELSE Await("v_sim", [l EXCEPT !.tx = enc], "simulateTransaction")

(* The minimal/full branch of /verify up to its first await.               *)
VerifyEmbedded(l) ==
    LET enc == l.data["transaction"] IN
    IF ~Truthy(enc)
    THEN Respond(Reject("Missing transaction data for full verification", ABSENT, {}), l)
    ELSE IF DecodeThrows(enc)
    THEN VerifyValidationFailed("Transaction.from", l)
    ELSE Await("v_sim", [l EXCEPT !.tx = enc], "simulateTransaction")

(* /verify from the request's arrival to its first await or response.      *)
VerifyEntry(b) ==
    IF ~b.hasPaymentPayload \/ ~b.hasRequirements
    THEN Respond(Reject("Missing paymentPayload or paymentRequirements", ABSENT, {}), NoLoc)
    ELSE IF ~Truthy(b.network)
    THEN Respond(Reject("Unsupported network - only Solana networks supported", ABSENT, {}), NoLoc)
    ELSE IF b.network = NonStringNetwork
    THEN Respond(Reject("Verification failed: ", "network.startsWith is not a function", {}), NoLoc)
    ELSE IF ~StartsWithSolana(b.network)
    THEN Respond(Reject("Unsupported network - only Solana networks supported", ABSENT, {}), NoLoc)
    ELSE IF ~HasConnection(b.network)
    THEN Respond(Reject("Unsupported network: ", b.network, {}), NoLoc)
    ELSE
      LET transactionData == extractTransactionData(b.hasPayload, b.payload)
          l == [NoLoc EXCEPT !.format = transactionData.format,
                             !.data = transactionData.data,
                             !.signature = transactionData.data["signature"]]
      IN
      IF transactionData.error # "none"
      THEN Respond(Reject("Invalid payload format: " \o transactionData.error,
                          ABSENT, transactionData.fields), l)
      ELSE IF l.format = "facilitator_sponsored" THEN VerifySponsored(l)
      ELSE IF l.format = "authorization_only"
      THEN Await("v_auth", l, "getTransaction")
      ELSE VerifyEmbedded(l)

\* VerifyAfterSimulation with a bug: a simulated minimal/full transaction is
\* sent to the ledger
VerifyAfterSimulation_Broadcasts(b, l, outcome) ==
    IF outcome = "throw"
    THEN VerifyValidationFailed("simulateTransaction", l)
    ELSE IF outcome = "err"
    THEN Respond(Reject("Transaction simulation failed: ", "simulation.value.err", {}), l)
    ELSE IF l.format = "facilitator_sponsored"
    THEN Respond(VerifyAccept(b, l), l)
    ELSE Await("s_send", l, "sendRawTransaction")

(* simulateTransaction returned: outcome is "ok" (value.err null), "err"   *)
(* (value.err set) or "throw" (the call rejected).                         *)
VerifyAfterSimulation(b, l, outcome) ==
    IF outcome = "throw"
    THEN VerifyValidationFailed("simulateTransaction", l)
    ELSE IF outcome = "err"
    THEN Respond(Reject("Transaction simulation failed: ", "simulation.value.err", {}), l)
    ELSE IF l.format = "facilitator_sponsored"
    THEN Respond(VerifyAccept(b, l), l)
    ELSE Await("v_replay", l, "getTransaction")

\* VerifyAfterReplayLookup with a bug: a transaction found with an execution
\* error does not count as executed
VerifyAfterReplayLookup_FailedNotExecuted(b, l, outcome) ==
    IF outcome = "found"
    THEN Respond(Reject("Transaction already executed on blockchain", ABSENT, {}), l)
    ELSE Respond(VerifyAccept(b, l), l)

\* VerifyAfterReplayLookup with a bug: a lookup that raises rejects, as in
\* the authorization_only branch
VerifyAfterReplayLookup_FailsClosed(b, l, outcome) ==
    IF outcome = "throw"
    THEN Respond(Reject("Unable to verify transaction on blockchain", ABSENT, {}), l)
    ELSE IF outcome \in {"found", "foundErr"}
    THEN Respond(Reject("Transaction already executed on blockchain", ABSENT, {}), l)
    ELSE Respond(VerifyAccept(b, l), l)

(* The replay lookup of the minimal/full branch returned: outcome is       *)
(* "null", "found", "foundErr" or "throw".                                 *)
VerifyAfterReplayLookup(b, l, outcome) ==
    IF outcome \in {"found", "foundErr"}
    THEN Respond(Reject("Transaction already executed on blockchain", ABSENT, {}), l)
    ELSE Respond(VerifyAccept(b, l), l)

\* VerifyAfterAuthLookup with a bug: a lookup that raises is taken as in the
\* minimal/full branch, where the exception is swallowed
VerifyAfterAuthLookup_FailsOpen(b, l, outcome) ==
    IF outcome = "null"
    THEN Respond(Reject("Transaction not found on blockchain - payment may not have been submitted yet", ABSENT, {}), l)
    ELSE IF outcome = "foundErr"
    THEN Respond(Reject("Transaction failed on blockchain: ", "existingTx.meta.err", {}), l)
    ELSE Respond(VerifyAccept(b, l), l)

(* The lookup of the authorization_only branch returned.                   *)
VerifyAfterAuthLookup(b, l, outcome) ==
    IF outcome = "throw"
    THEN Respond(Reject("Unable to verify transaction on blockchain", ABSENT, {}), l)
    ELSE IF outcome = "null"
    THEN Respond(Reject("Transaction not found on blockchain - payment may not have been submitted yet", ABSENT, {}), l)
    ELSE IF outcome = "foundErr"
    THEN Respond(Reject("Transaction failed on blockchain: ", "existingTx.meta.err", {}), l)
    ELSE Respond(VerifyAccept(b, l), l)

SimulationOutcomes == {"ok", "err", "throw"}
LookupOutcomes == {"null", "found", "foundErr", "throw"}

----------------------------------------------------------------------------
(* Applying a stretch of handler code to request r.                        *)

(* History of what the ledger answered a request.  Of a settlement         *)
(* attempt's status queries: whether some answer carried an execution      *)
(* error, whether some answer said confirmed or finalized (with or without *)
(* an error, and without one), and the confirmationStatus of the last      *)
(* answer that had a status (ABSENT: none had, or the last one left the    *)
(* field unset).  Of the other calls: the outcome of simulateTransaction,  *)
(* of the getTransaction lookup by signature, of sendRawTransaction and of *)
(* the detail fetch that follows a confirmation (ABSENT: not returned).    *)
NoHist ==
    [sawErr |-> FALSE, sawConfirmed |-> FALSE, sawConfirmedOk |-> FALSE,
     lastStatus |-> ABSENT, simulation |-> ABSENT, lookup |-> ABSENT,
     send |-> ABSENT, detail |-> ABSENT]

Observe(h, answer) ==
    IF answer.kind # "value" THEN h
    ELSE [h EXCEPT
            !.sawErr = @ \/ answer.err,
            !.sawConfirmed =
                @ \/ answer.confirmationStatus \in {"confirmed", "finalized"},
            !.sawConfirmedOk =
                @ \/ (/\ answer.confirmationStatus \in {"confirmed", "finalized"}
                      /\ ~answer.err),
            !.lastStatus = answer.confirmationStatus]

Step(r, next) ==
    /\ pc' = [pc EXCEPT ![r] = next.pc]
    /\ loc' = [loc EXCEPT ![r] = next.loc]
    /\ resp' = [resp EXCEPT ![r] = @ \o next.resp]
    /\ calls' = [calls EXCEPT ![r] =
                   IF next.call = "none" THEN @ ELSE Call(@, next.call)]
    /\ UNCHANGED <<endpoint, body, served>>

\* slot r is free: no request in it, or one whose handler has ended
Free(r) == pc[r] \in {"idle", "done", "fault"}

(* A request for route with body b arrives in the free slot r and its      *)
(* handler runs to its first await or response.                            *)
Receive(r, route, b, next) ==
    /\ Free(r)
    /\ served < MaxRequests
    /\ served' = served + 1
    /\ endpoint' = [endpoint EXCEPT ![r] = route]
    /\ body' = [body EXCEPT ![r] = b]
    /\ pc' = [pc EXCEPT ![r] = next.pc]
    /\ loc' = [loc EXCEPT ![r] = next.loc]
    /\ resp' = [resp EXCEPT ![r] = next.resp]
    /\ calls' = [calls EXCEPT ![r] =
                   IF next.call = "none" THEN NoCalls ELSE Call(NoCalls, next.call)]
    /\ hist' = [hist EXCEPT ![r] = NoHist]

VerifyReceive(r) ==
    /\ \E b \in PaymentBodies : Receive(r, "verify", b, VerifyEntry(b))
    /\ UNCHANGED <<ledger, normVars>>

VerifySimulationReturns(r) ==
    /\ pc[r] = "v_sim"
    /\ \E outcome \in SimulationOutcomes :
         /\ Step(r, VerifyAfterSimulation(body[r], loc[r], outcome))
         /\ hist' = [hist EXCEPT ![r].simulation = outcome]
    /\ UNCHANGED <<ledger, normVars>>

VerifyReplayLookupReturns(r) ==
    /\ pc[r] = "v_replay"
    /\ \E outcome \in LookupOutcomes :
         /\ Step(r, VerifyAfterReplayLookup(body[r], loc[r], outcome))
         /\ hist' = [hist EXCEPT ![r].lookup = outcome]
    /\ UNCHANGED <<ledger, normVars>>

VerifyAuthLookupReturns(r) ==
    /\ pc[r] = "v_auth"
    /\ \E outcome \in LookupOutcomes :
         /\ Step(r, VerifyAfterAuthLookup(body[r], loc[r], outcome))
         /\ hist' = [hist EXCEPT ![r].lookup = outcome]
    /\ UNCHANGED <<ledger, normVars>>

----------------------------------------------------------------------------
(* POST /settle and settleSolanaTransaction.                               *)

\* the catch of /settle; b.network is read there as paymentPayload.network
SettleFailed(b, message, detail, fields, l) ==
    Respond([Reject("Settlement failed: " \o message, detail, fields)
               EXCEPT !.network = b.network], l)

SettleSuccess(b, l) ==
    [http |-> 200, ok |-> TRUE, reason |-> ABSENT, detail |-> ABSENT,
     fields |-> {}, transaction |-> l.signature, network |-> b.network,
     payer |-> IF l.format = "facilitator_sponsored"
               THEN facilitatorKeypair
               ELSE Or(l.data["payer"],
                       Or(AuthField(b.payload["authorization"], "from"),
                          "unknown")),
     confirmationStatus |-> l.confirmationStatus, slot |-> l.slot,
     gasSponsoredByFacilitator |-> l.format = "facilitator_sponsored",
     userPaidGas |-> l.format # "facilitator_sponsored"]

(* settleSolanaTransaction from its call to the broadcast: decode, log the *)
(* fee payer, serialize, sendRawTransaction.                               *)
SettleBroadcast(b, l, enc) ==
    IF DecodeThrows(enc)
    THEN SettleFailed(b, "Transaction.from", ABSENT, {}, l)
    ELSE IF FeePayerOf(enc) = ABSENT
    THEN SettleFailed(b, "Cannot read properties of undefined (reading 'toBase58')",
                      ABSENT, {}, l)
    ELSE IF SerializeThrows(enc)
    THEN SettleFailed(b, "Signature verification failed", ABSENT, {}, l)
    ELSE IF ~IsConnection(b.network)
    THEN SettleFailed(b, "connection.sendRawTransaction is not a function",
                      ABSENT, {}, l)
    ELSE Await("s_send", [l EXCEPT !.tx = enc], "sendRawTransaction")

\* SettleEntry with a bug: a payload that extractTransactionData refuses is
\* settled from its raw transaction field all the same
SettleEntry_IgnoresFormatError(b) ==
    IF ~b.hasPaymentPayload
    THEN Unhandled
    ELSE IF ~HasConnection(b.network)
    THEN SettleFailed(b, "Invalid settlement request: unsupported network",
                      ABSENT, {}, NoLoc)
    ELSE
      LET transactionData == extractTransactionData(b.hasPayload, b.payload)
          l == [NoLoc EXCEPT !.format = transactionData.format,
                             !.data = transactionData.data,
                             !.signature = transactionData.data["signature"]]
      IN
      IF transactionData.error # "none"
      THEN IF Truthy(b.payload["transaction"])
           THEN SettleBroadcast(b, l, b.payload["transaction"])
           ELSE SettleFailed(b, "Missing transaction data for settlement", ABSENT, {}, l)
      ELSE IF l.format = "facilitator_sponsored"
      THEN SettleBroadcast(b, l, l.data["facilitatorTransaction"])
      ELSE IF l.format = "authorization_only"
      THEN IF IsConnection(b.network)
           THEN Await("s_auth", l, "getTransaction")
           ELSE SettleFailed(b, "Failed to verify existing transaction: ",
                             "connection.getTransaction is not a function", {}, l)
      ELSE IF ~Truthy(l.data["transaction"])
      THEN SettleFailed(b, "Missing transaction data for settlement", ABSENT, {}, l)
      ELSE SettleBroadcast(b, l, l.data["transaction"])

(* /settle from the request's arrival to its first await or response.      *)
SettleEntry(b) ==
    IF ~b.hasPaymentPayload
    THEN Unhandled
    ELSE IF ~HasConnection(b.network)
    THEN SettleFailed(b, "Invalid settlement request: unsupported network",
                      ABSENT, {}, NoLoc)
    ELSE
      LET transactionData == extractTransactionData(b.hasPayload, b.payload)
          l == [NoLoc EXCEPT !.format = transactionData.format,
                             !.data = transactionData.data,
                             !.signature = transactionData.data["signature"]]
      IN
      IF transactionData.error # "none"
      THEN SettleFailed(b, "Invalid payload format: " \o transactionData.error,
                        ABSENT, transactionData.fields, l)
      ELSE IF l.format = "facilitator_sponsored"
      THEN SettleBroadcast(b, l, l.data["facilitatorTransaction"])
      ELSE IF l.format = "authorization_only"
      THEN IF IsConnection(b.network)
           THEN Await("s_auth", l, "getTransaction")
           ELSE SettleFailed(b, "Failed to verify existing transaction: ",
                             "connection.getTransaction is not a function", {}, l)
      ELSE IF ~Truthy(l.data["transaction"])
      THEN SettleFailed(b, "Missing transaction data for settlement", ABSENT, {}, l)
      ELSE SettleBroadcast(b, l, l.data["transaction"])

(* settleSolanaTransaction has returned its receipt l to /settle.          *)
SettleAfterReceipt(b, l) ==
    IF ~l.confirmed
    THEN SettleFailed(b,
           IF l.format = "facilitator_sponsored"
           THEN "Facilitator-sponsored transaction not confirmed within timeout. Status: "
           ELSE "Transaction not confirmed within timeout. Status: ",
           l.confirmationStatus, {}, l)
    ELSE Respond(SettleSuccess(b, l), l)

(* The head of the polling loop: another status query, or the return.      *)
PollOrReturn(b, l) ==
    IF l.elapsed < timeout /\ ~l.confirmed
    THEN Await("s_status", l, "getSignatureStatus")
    ELSE SettleAfterReceipt(b, l)

(* sendRawTransaction returned: outcome is "accepted" (the signature comes *)
(* back), "rejected" (the ledger refused the transaction) or "lost" (the   *)
(* ledger took the transaction and the call failed all the same).          *)
SendOutcomes == {"accepted", "rejected", "lost"}

\* SettleAfterSend with a bug: the failure of the broadcast is swallowed and
\* the attempt polls for the signature the payload claims
SettleAfterSend_PollsAfterFailure(b, l, outcome) ==
    PollOrReturn(b, [l EXCEPT !.signature =
                                 IF outcome = "accepted" THEN SigOf(l.tx) ELSE @,
                              !.elapsed = 0,
                              !.confirmed = FALSE,
                              !.confirmationStatus = "processed",
                              !.slot = FALSY,
                              !.blockTime = FALSY,
                              !.fees = FALSY])

\* SettleAfterSend with a bug: a failed broadcast is sent again
SettleAfterSend_Rebroadcasts(b, l, outcome) ==
    IF outcome # "accepted"
    THEN Await("s_send", l, "sendRawTransaction")
    ELSE PollOrReturn(b, [l EXCEPT !.signature = SigOf(l.tx),
                                   !.elapsed = 0,
                                   !.confirmed = FALSE,
                                   !.confirmationStatus = "processed",
                                   !.slot = FALSY,
                                   !.blockTime = FALSY,
                                   !.fees = FALSY])

SettleAfterSend(b, l, outcome) ==
    IF outcome # "accepted"
    THEN SettleFailed(b, "sendRawTransaction", ABSENT, {}, l)
    ELSE PollOrReturn(b, [l EXCEPT !.signature = SigOf(l.tx),
                                   !.elapsed = 0,
                                   !.confirmed = FALSE,
                                   !.confirmationStatus = "processed",
                                   !.slot = FALSY,
                                   !.blockTime = FALSY,
                                   !.fees = FALSY])

(* What getSignatureStatus can answer: the call rejects, status.value is   *)
(* null, or it is a status with a confirmationStatus (ABSENT: the field is *)
(* not set) and an err (TRUE: the transaction failed on chain).            *)
StatusAnswers ==
    {[kind |-> "throw", confirmationStatus |-> ABSENT, err |-> FALSE],
     [kind |-> "null", confirmationStatus |-> ABSENT, err |-> FALSE]}
    \cup [kind : {"value"},
          confirmationStatus : {ABSENT, "processed", "confirmed", "finalized"},
          err : BOOLEAN]

\* SettleAfterStatus with a bug: the confirmation is looked at before the
\* execution error
SettleAfterStatus_ConfirmBeforeErr(b, l, answer, d) ==
    LET l1 == [l EXCEPT !.elapsed = @ + d]
        l2 == [l1 EXCEPT !.confirmationStatus =
                            Or(answer.confirmationStatus, "processed")]
    IN
    IF answer.kind = "throw"
    THEN PollOrReturn(b, l1)
    ELSE IF answer.kind = "null"
    THEN Await("s_sleep", l1, "none")
    ELSE IF l2.confirmationStatus \in {"confirmed", "finalized"}
    THEN Await("s_detail", [l2 EXCEPT !.confirmed = TRUE], "getTransaction")
    ELSE IF answer.err
    THEN PollOrReturn(b, l2)
    ELSE Await("s_sleep", l2, "none")

\* SettleAfterStatus with a bug: any status but an execution error counts
\* as confirmed
SettleAfterStatus_AnyStatusConfirms(b, l, answer, d) ==
    LET l1 == [l EXCEPT !.elapsed = @ + d]
        l2 == [l1 EXCEPT !.confirmationStatus =
                            Or(answer.confirmationStatus, "processed")]
    IN
    IF answer.kind = "throw"
    THEN PollOrReturn(b, l1)
    ELSE IF answer.kind = "null"
    THEN Await("s_sleep", l1, "none")
    ELSE IF answer.err
    THEN PollOrReturn(b, l2)
    ELSE Await("s_detail", [l2 EXCEPT !.confirmed = TRUE], "getTransaction")

(* One pass of the loop body after getSignatureStatus returned answer,     *)
(* d milliseconds after it was called.                                     *)
SettleAfterStatus(b, l, answer, d) ==
    LET l1 == [l EXCEPT !.elapsed = @ + d]
        l2 == [l1 EXCEPT !.confirmationStatus =
                            Or(answer.confirmationStatus, "processed")]
    IN
    IF answer.kind = "throw"
    THEN PollOrReturn(b, l1)
    ELSE IF answer.kind = "null"
    THEN Await("s_sleep", l1, "none")
    ELSE IF answer.err
    THEN PollOrReturn(b, l2)
    ELSE IF l2.confirmationStatus \in {"confirmed", "finalized"}
    THEN Await("s_detail", [l2 EXCEPT !.confirmed = TRUE], "getTransaction")
    ELSE Await("s_sleep", l2, "none")

\* SettleAfterSleep with a bug: the start time is taken anew in each pass
\* of the loop
SettleAfterSleep_RestartsClock(b, l) ==
    PollOrReturn(b, [l EXCEPT !.elapsed = 0])

\* the setTimeout of the loop has fired
SettleAfterSleep(b, l) ==
    PollOrReturn(b, [l EXCEPT !.elapsed = @ + PollInterval])

(* The detail fetch returned: outcome is "throw", "null" or "found".       *)
DetailOutcomes == {"throw", "null", "found"}

\* SettleAfterDetail with a bug: the attempt counts as confirmed only once
\* the detail fetch has returned
SettleAfterDetail_ConfirmsAfterFetch(b, l, outcome) ==
    SettleAfterReceipt(b,
        IF outcome = "throw" THEN [l EXCEPT !.confirmed = FALSE]
        ELSE IF outcome = "null"
        THEN [l EXCEPT !.slot = ABSENT, !.blockTime = ABSENT, !.fees = ABSENT]
        ELSE [l EXCEPT !.slot = "txInfo.slot", !.blockTime = "txInfo.blockTime",
                       !.fees = "txInfo.meta.fee"])

SettleAfterDetail(b, l, outcome) ==
    SettleAfterReceipt(b,
        IF outcome = "throw" THEN l
        ELSE IF outcome = "null"
        THEN [l EXCEPT !.slot = ABSENT, !.blockTime = ABSENT, !.fees = ABSENT]
        ELSE [l EXCEPT !.slot = "txInfo.slot", !.blockTime = "txInfo.blockTime",
                       !.fees = "txInfo.meta.fee"])

\* SettleAfterAuthLookup with a bug: the test for a transaction that was not
\* found is missing
SettleAfterAuthLookup_NoNotFoundTest(b, l, outcome) ==
    IF outcome = "throw"
    THEN SettleFailed(b, "Failed to verify existing transaction: ", "getTransaction", {}, l)
    ELSE IF outcome = "foundErr"
    THEN SettleFailed(b, "Failed to verify existing transaction: ",
                      "Transaction failed: existingTx.meta.err", {}, l)
    ELSE LET result == [l EXCEPT !.confirmed = TRUE,
                                 !.confirmationStatus = "confirmed",
                                 !.slot = "txInfo.slot",
                                 !.blockTime = "txInfo.blockTime",
                                 !.fees = "txInfo.meta.fee"]
         IN Respond(SettleSuccess(b, result), result)

(* The lookup of the authorization_only branch returned.                   *)
SettleAfterAuthLookup(b, l, outcome) ==
    IF outcome = "throw"
    THEN SettleFailed(b, "Failed to verify existing transaction: ", "getTransaction", {}, l)
    ELSE IF outcome = "null"
    THEN SettleFailed(b, "Failed to verify existing transaction: ",
                      "Transaction not found on blockchain", {}, l)
    ELSE IF outcome = "foundErr"
    THEN SettleFailed(b, "Failed to verify existing transaction: ",
                      "Transaction failed: existingTx.meta.err", {}, l)
    ELSE LET result == [l EXCEPT !.confirmed = TRUE,
                                 !.confirmationStatus = "confirmed",
                                 !.slot = "txInfo.slot",
                                 !.blockTime = "txInfo.blockTime",
                                 !.fees = "txInfo.meta.fee"]
         IN Respond(SettleSuccess(b, result), result)

\* the ledger takes a broadcast of enc
Submit(l, enc) == [l EXCEPT ![enc] = @ + 1]

SettleReceive(r) ==
    /\ \E b \in PaymentBodies : Receive(r, "settle", b, SettleEntry(b))
    /\ UNCHANGED <<ledger, normVars>>

SettleSendReturns(r) ==
    /\ pc[r] = "s_send"
    /\ \E outcome \in SendOutcomes :
         /\ Step(r, SettleAfterSend(body[r], loc[r], outcome))
         /\ ledger' = IF outcome = "rejected" THEN ledger
                      ELSE Submit(ledger, loc[r].tx)
         /\ hist' = [hist EXCEPT ![r].send = outcome]
    /\ UNCHANGED normVars

SettleStatusReturns(r) ==
    /\ pc[r] = "s_status"
    /\ \E answer \in StatusAnswers, d \in StatusLatencies :
         /\ Step(r, SettleAfterStatus(body[r], loc[r], answer, d))
         /\ hist' = [hist EXCEPT ![r] = Observe(@, answer)]
    /\ UNCHANGED <<ledger, normVars>>

SettleSleepReturns(r) ==
    /\ pc[r] = "s_sleep"
    /\ Step(r, SettleAfterSleep(body[r], loc[r]))
    /\ UNCHANGED <<ledger, hist, normVars>>

SettleDetailReturns(r) ==
    /\ pc[r] = "s_detail"
    /\ \E outcome \in DetailOutcomes :
         /\ Step(r, SettleAfterDetail(body[r], loc[r], outcome))
         /\ hist' = [hist EXCEPT ![r].detail = outcome]
    /\ UNCHANGED <<ledger, normVars>>

SettleAuthLookupReturns(r) ==
    /\ pc[r] = "s_auth"
    /\ \E outcome \in LookupOutcomes :
         /\ Step(r, SettleAfterAuthLookup(body[r], loc[r], outcome))
         /\ hist' = [hist EXCEPT ![r].lookup = outcome]
    /\ UNCHANGED <<ledger, normVars>>

----------------------------------------------------------------------------
(* POST /create-sponsored-transaction and createFacilitatorPaidTransaction.*)

CreateFailed(message, detail) ==
    Respond(Reject(message, detail, {}), NoLoc)

(* The transaction createFacilitatorPaidTransaction returns, serialized     *)
(* with requireAllSignatures: false.  The fee payer is the facilitator;    *)
(* the signature slot pushed for userPublicKey is null and partialSign     *)
(* fills the slot of the facilitator's key.  When userPublicKey is the     *)
(* facilitator's key the two slots are one, and the transaction leaves     *)
(* fully signed.                                                           *)
CreateSuccess(b) ==
    [http |-> 200, ok |-> TRUE, reason |-> ABSENT, detail |-> ABSENT,
     fields |-> {},
     transaction |-> IF b.userPublicKey = facilitatorKeypair
                     THEN TxFac ELSE TxUnsigned,
     network |-> ABSENT,
     payer |-> ABSENT, confirmationStatus |-> ABSENT, slot |-> ABSENT,
     gasSponsoredByFacilitator |-> TRUE, userPaidGas |-> FALSE]

\* new PublicKey(userPublicKey) throws
MalformedKey(k) == k \notin {"UserPubKey", facilitatorKeypair}

(* The handler from the request's arrival to its first await or response.  *)
CreateEntry(b) ==
    IF ~Truthy(b.userPublicKey)
    THEN CreateFailed("Missing userPublicKey", ABSENT)
    ELSE IF ~b.hasRequirements
    THEN CreateFailed("Missing paymentRequirements", ABSENT)
    ELSE IF ~HasConnection(b.network)
    THEN CreateFailed("Unsupported network: ", b.network)
    ELSE IF ~IsConnection(b.network)
    THEN CreateFailed("Failed to create sponsored transaction: ",
                      "connection.getLatestBlockhash is not a function")
    ELSE Await("c_blockhash", NoLoc, "getLatestBlockhash")

(* getLatestBlockhash returned (outcome "ok" or "throw"); the rest of      *)
(* createFacilitatorPaidTransaction needs no ledger.                       *)
BlockhashOutcomes == {"ok", "throw"}

CreateAfterBlockhash(b, outcome) ==
    IF outcome = "throw"
    THEN CreateFailed("Failed to create sponsored transaction: ", "getLatestBlockhash")
    ELSE IF MalformedKey(b.userPublicKey) \/ ~b.requirementsValid
    THEN CreateFailed("Failed to create sponsored transaction: ", "new PublicKey")
    ELSE Respond(CreateSuccess(b), NoLoc)

CreateReceive(r) ==
    /\ \E b \in CreateBodies : Receive(r, "create", b, CreateEntry(b))
    /\ UNCHANGED <<ledger, normVars>>

CreateBlockhashReturns(r) ==
    /\ pc[r] = "c_blockhash"
    /\ \E outcome \in BlockhashOutcomes :
         Step(r, CreateAfterBlockhash(body[r], outcome))
    /\ UNCHANGED <<ledger, hist, normVars>>

----------------------------------------------------------------------------
(* The server: the request slot is idle, no broadcast has been taken.      *)

\* request slots of the server: a slot holds one request in flight; a slot
\* that is "off" takes no request
Requests == {1, 2}

NotNormalizing ==
    /\ npayload = EmptyPayload
    /\ nresult = ExtractError("not called", {})

Idle(slots) ==
    /\ pc = [r \in Requests |-> IF r \in slots THEN "idle" ELSE "off"]
    /\ endpoint = [r \in Requests |-> "none"]
    /\ body = [r \in Requests |-> NoBody]
    /\ loc = [r \in Requests |-> NoLoc]
    /\ resp = [r \in Requests |-> <<>>]
    /\ calls = [r \in Requests |-> NoCalls]
    /\ hist = [r \in Requests |-> NoHist]
    /\ ledger = [enc \in EncodedTxs |-> 0]
    /\ served = 0

Init ==
    /\ Idle({1})
    /\ NotNormalizing

Next ==
    \/ \E r \in Requests : VerifyReceive(r)
    \/ \E r \in Requests : VerifySimulationReturns(r)
    \/ \E r \in Requests : VerifyReplayLookupReturns(r)
    \/ \E r \in Requests : VerifyAuthLookupReturns(r)
    \/ \E r \in Requests : SettleReceive(r)
    \/ \E r \in Requests : SettleSendReturns(r)
    \/ \E r \in Requests : SettleStatusReturns(r)
    \/ \E r \in Requests : SettleSleepReturns(r)
    \/ \E r \in Requests : SettleDetailReturns(r)
    \/ \E r \in Requests : SettleAuthLookupReturns(r)
    \/ \E r \in Requests : CreateReceive(r)
    \/ \E r \in Requests : CreateBlockhashReturns(r)

Spec == Init /\ [][Next]_vars

----------------------------------------------------------------------------
(* The payload normalizer on its own: extractTransactionData applied to    *)
(* every payload document over the fields it reads.                        *)

\* the largest number of fields outside the four shapes' conditions that a
\* payload document carries
MaxExtraFields == 2

Kinds == {"absent", "falsy", "truthy", "truthy2"}

\* a value of the given kind for field f
Sample(f, kind) ==
    CASE kind = "absent" -> ABSENT
      [] kind = "falsy" -> FALSY
      [] kind = "truthy2" -> AuthEmpty
      [] f = "authorization" -> AuthFull
      [] f = "transaction" -> TxOther
      [] f = "facilitatorTransaction" -> TxFac
      [] OTHER -> "payload." \o f

NormalizeInputs ==
    {[f \in PayloadFields |->
        IF f \in CondFields THEN Sample(f, k[f])
        ELSE IF f \in e THEN Sample(f, "truthy") ELSE ABSENT] :
     k \in {kk \in [CondFields -> Kinds] :
              \A f \in CondFields : kk[f] = "truthy2" => f = "authorization"},
     e \in {ee \in SUBSET (PayloadFields \ CondFields) :
              Cardinality(ee) <= MaxExtraFields}}

NotCalled == ExtractError("not called", {})

InitNormalize ==
    /\ Idle({})
    /\ npayload \in NormalizeInputs
    /\ nresult = NotCalled

Normalize ==
    /\ nresult = NotCalled
    /\ nresult' = extractTransactionData(TRUE, npayload)
    /\ UNCHANGED <<npayload, serverVars>>

NextNormalize == Normalize

SpecNormalize == InitNormalize /\ [][NextNormalize]_vars

----------------------------------------------------------------------------
(* /verify on any payload document: one request on a registered network,   *)
(* with requirements, carrying a document drawn as for the normalizer.     *)

InitVerifyDocument ==
    /\ Idle({1})
    /\ npayload \in NormalizeInputs
    /\ nresult = NotCalled

VerifyReceiveDocument(r) ==
    /\ served = 0
    /\ \E n \in connections :
         Receive(r, "verify", Body(TRUE, TRUE, n, TRUE, npayload),
                 VerifyEntry(Body(TRUE, TRUE, n, TRUE, npayload)))
    /\ UNCHANGED <<ledger, normVars>>

NextVerifyDocument ==
    \/ \E r \in Requests : VerifyReceiveDocument(r)
    \/ \E r \in Requests : VerifySimulationReturns(r)
    \/ \E r \in Requests : VerifyReplayLookupReturns(r)
    \/ \E r \in Requests : VerifyAuthLookupReturns(r)

SpecVerifyDocument == InitVerifyDocument /\ [][NextVerifyDocument]_vars

----------------------------------------------------------------------------
(* One /settle request on its own, with ledger calls that return and a     *)
(* clock that keeps advancing.                                             *)

InitSettle ==
    /\ Idle({1})
    /\ NotNormalizing

SettleReceiveOnce(r) ==
    /\ served = 0
    /\ SettleReceive(r)

NextSettle ==
    \/ \E r \in Requests : SettleReceiveOnce(r)
    \/ \E r \in Requests : SettleSendReturns(r)
    \/ \E r \in Requests : SettleStatusReturns(r)
    \/ \E r \in Requests : SettleSleepReturns(r)
    \/ \E r \in Requests : SettleDetailReturns(r)
    \/ \E r \in Requests : SettleAuthLookupReturns(r)

\* getSignatureStatus returns after some time has passed on the clock
SettleStatusReturnsLate(r) ==
    /\ pc[r] = "s_status"
    /\ \E answer \in StatusAnswers, d \in StatusLatencies \ {0} :
         /\ Step(r, SettleAfterStatus(body[r], loc[r], answer, d))
         /\ hist' = [hist EXCEPT ![r] = Observe(@, answer)]
    /\ UNCHANGED <<ledger, normVars>>

(* Every pending ledger call returns and every pending setTimeout fires;   *)
(* a loop that keeps querying without ever sleeping sees time pass.        *)
SettleFairness ==
    \A r \in Requests :
        /\ WF_vars(SettleSendReturns(r))
        /\ WF_vars(SettleStatusReturns(r))
        /\ WF_vars(SettleStatusReturnsLate(r))
        /\ WF_vars(SettleSleepReturns(r))
        /\ WF_vars(SettleDetailReturns(r))
        /\ WF_vars(SettleAuthLookupReturns(r))

SpecSettleFair == InitSettle /\ [][NextSettle]_vars /\ SettleFairness

----------------------------------------------------------------------------
(* Concurrent settlement: both request slots take a /settle request, the   *)
(* two presenting the same payload, and the handlers interleave at their   *)
(* awaits.  The payload is a minimal one; a full payload takes the same    *)
(* branch of /settle and differs in the payer of the success response      *)
(* only.                                                                   *)

SamePayloadBodies ==
    {Body(TRUE, TRUE, "solana-devnet", TRUE, Minimal(TxOther))}

InitConcurrentSettle ==
    /\ Idle(Requests)
    /\ NotNormalizing

\* SettleReceiveSame changed: the handler keeps a table of the signatures
\* in flight and refuses a payload whose signature is in it
SettleReceiveSame_InFlightDedup(r) ==
    /\ pc[r] = "idle"
    /\ \E b \in SamePayloadBodies :
         /\ \A q \in Requests \ {r} : pc[q] # "idle" => body[q] = b
         /\ Receive(r, "settle", b,
                    IF \E q \in Requests \ {r} :
                          /\ pc[q] \notin {"idle", "done", "fault"}
                          /\ body[q].payload["signature"] = b.payload["signature"]
                    THEN SettleFailed(b, "Settlement already in progress",
                                      ABSENT, {}, NoLoc)
                    ELSE SettleEntry(b))
    /\ UNCHANGED <<ledger, normVars>>

(* A /settle request arrives in the idle slot r, with the payload of the   *)
(* request in the other slot if there is one.                              *)
SettleReceiveSame(r) ==
    /\ pc[r] = "idle"
    /\ \E b \in SamePayloadBodies :
         /\ \A q \in Requests \ {r} : pc[q] # "idle" => body[q] = b
         /\ Receive(r, "settle", b, SettleEntry(b))
    /\ UNCHANGED <<ledger, normVars>>

NextConcurrentSettle ==
    \/ \E r \in Requests : SettleReceiveSame(r)
    \/ \E r \in Requests : SettleSendReturns(r)
    \/ \E r \in Requests : SettleStatusReturns(r)
    \/ \E r \in Requests : SettleSleepReturns(r)
    \/ \E r \in Requests : SettleDetailReturns(r)

SpecConcurrentSettle ==
    InitConcurrentSettle /\ [][NextConcurrentSettle]_vars

----------------------------------------------------------------------------
(* Properties.                                                             *)

\* the step changes the state of the request in slot r
Acts(r) ==
    <<pc[r], endpoint[r], body[r], loc[r], resp[r], calls[r]>>'
        # <<pc[r], endpoint[r], body[r], loc[r], resp[r], calls[r]>>

Ended(r) == pc[r] \in {"done", "fault"}

\* the only response of a request whose handler has responded
Response(r) == resp[r][1]

\* settleSolanaTransaction has broadcast, polled and returned its receipt
\* loc[r] to /settle, which has responded
ReceiptReturned(r) ==
    /\ endpoint[r] = "settle"
    /\ pc[r] = "done"
    /\ calls[r]["getSignatureStatus"] = 1

TimeoutReasons ==
    {"Settlement failed: Facilitator-sponsored transaction not confirmed within timeout. Status: ",
     "Settlement failed: Transaction not confirmed within timeout. Status: "}

(* C1: no step of a /verify request, whatever its payload and whatever the *)
(* ledger answers, changes the ledger, and a /verify request issues no RPC *)
(* call other than simulateTransaction and getTransaction.                 *)
C1_VerifyNeverBroadcasts ==
    [][\A r \in Requests :
         (Acts(r) /\ endpoint'[r] = "verify") =>
            /\ ledger' = ledger
            /\ calls'[r]["sendRawTransaction"] = 0
            /\ calls'[r]["getSignatureStatus"] = 0
            /\ calls'[r]["getLatestBlockhash"] = 0]_vars

\* a /verify request has simulated and looked the signature up, on a
\* ledger that holds an earlier broadcast
C1_Witness ==
    \E r \in Requests :
        /\ endpoint[r] = "verify"
        /\ pc[r] = "done"
        /\ calls[r]["simulateTransaction"] = 1
        /\ calls[r]["getTransaction"] = 1
        /\ ledger[TxOther] > 0

\* the request in slot r carries a facilitator_sponsored payload whose
\* transaction decodes to a fee payer that is not the facilitator
ForeignFeePayer(r) ==
    /\ loc[r].format = "facilitator_sponsored"
    /\ ~DecodeThrows(loc[r].data["facilitatorTransaction"])
    /\ FeePayerOf(loc[r].data["facilitatorTransaction"]) # facilitatorKeypair

(* C2: a /settle request with a facilitator_sponsored payload whose fee    *)
(* payer is not the facilitator never reaches sendRawTransaction and never *)
(* gets success:true.                                                      *)
C2_ForeignFeePayerNeverSettled ==
    \A r \in Requests :
        (endpoint[r] = "settle" /\ ForeignFeePayer(r)) =>
            /\ calls[r]["sendRawTransaction"] = 0
            /\ ~(resp[r] # <<>> /\ Response(r).ok)

(* C3: a /verify request with a facilitator_sponsored payload whose        *)
(* decoded fee payer is not the facilitator is answered isValid:false with *)
(* HTTP 400 before any simulation: simulateTransaction is never called.    *)
C3_VerifyRejectsForeignFeePayer ==
    \A r \in Requests :
        (endpoint[r] = "verify" /\ ForeignFeePayer(r)) =>
            /\ pc[r] = "done"
            /\ calls[r] = NoCalls
            /\ Len(resp[r]) = 1
            /\ ~Response(r).ok
            /\ Response(r).http = 400

C3_Witness ==
    \E r \in Requests :
        /\ endpoint[r] = "verify"
        /\ ForeignFeePayer(r)
        /\ resp[r] # <<>>
        /\ Response(r).reason = "Transaction fee payer is not the facilitator"

(* C4: when the broadcast succeeded and polling ended without a confirmed  *)
(* receipt, the /settle response carries the broadcast's signature.        *)
C4_TimeoutReportsSignature ==
    \A r \in Requests :
        (ReceiptReturned(r) /\ ~loc[r].confirmed) =>
            Response(r).transaction = loc[r].signature

(* C5: once a status query has observed an execution error, polling has    *)
(* stopped and the /settle failure reason is not the timeout reason.       *)
C5_ExecutionErrorEndsPolling ==
    \A r \in Requests :
        (endpoint[r] = "settle" /\ hist[r].sawErr) =>
            /\ pc[r] = "done"
            /\ Response(r).reason \notin TimeoutReasons

(* C6: a handler never ends without a response, and a request that is      *)
(* over has exactly one response: a success, or HTTP 400 with a reason.    *)
C6_EveryRequestAnswered ==
    \A r \in Requests :
        Ended(r) =>
            /\ Len(resp[r]) = 1
            /\ \/ Response(r).ok /\ Response(r).http = 200
               \/ ~Response(r).ok /\ Response(r).http = 400
                  /\ Truthy(Response(r).reason)

C8_ConfirmedReceiptWellFormed ==
    \A r \in Requests :
        /\ loc[r].confirmed =>
              /\ Truthy(loc[r].signature)
              /\ loc[r].confirmationStatus \in {"confirmed", "finalized"}
        /\ (endpoint[r] = "settle" /\ resp[r] # <<>> /\ Response(r).ok) =>
              /\ loc[r].confirmed
              /\ Response(r).transaction = loc[r].signature
              /\ Response(r).confirmationStatus = loc[r].confirmationStatus

C8_Witness ==
    \E r \in Requests :
        /\ ReceiptReturned(r)
        /\ loc[r].confirmed
        /\ loc[r].confirmationStatus = "finalized"
        /\ Response(r).ok

\* the four shapes' conditions on a payload document
IsSponsoredShape(p) ==
    Truthy(p["userSignature"]) /\ Truthy(p["facilitatorTransaction"])
        /\ Truthy(p["userPublicKey"])
IsMinimalShape(p) ==
    Truthy(p["signature"]) /\ Truthy(p["transaction"]) /\ ~Truthy(p["payer"])
IsFullShape(p) ==
    Truthy(p["signature"]) /\ Truthy(p["transaction"]) /\ Truthy(p["payer"])
IsAuthorizationShape(p) ==
    Truthy(p["signature"]) /\ Truthy(p["authorization"]) /\ ~Truthy(p["transaction"])

FirstShape(p) ==
    CASE IsSponsoredShape(p) -> "facilitator_sponsored"
      [] ~IsSponsoredShape(p) /\ IsMinimalShape(p) -> "minimal"
      [] ~IsSponsoredShape(p) /\ ~IsMinimalShape(p) /\ IsFullShape(p) -> "full"
      [] ~IsSponsoredShape(p) /\ ~IsMinimalShape(p) /\ ~IsFullShape(p)
           /\ IsAuthorizationShape(p) -> "authorization_only"
      [] OTHER -> "none"

\* p without the fields no shape's condition reads
OnlyCondFields(p) == [f \in DOMAIN p |-> IF f \in CondFields THEN p[f] ELSE ABSENT]

(* C9: extractTransactionData gives a payload document the tag of the      *)
(* first shape, in the order facilitator_sponsored, minimal, full,         *)
(* authorization_only, whose condition holds, and a format error exactly   *)
(* when none holds; the tag is the same without the fields that no         *)
(* condition reads.                                                        *)
C9_FirstMatchingShape ==
    nresult # NotCalled =>
        /\ nresult.format = FirstShape(npayload)
        /\ (nresult.error # "none") = (FirstShape(npayload) = "none")
        /\ nresult.error \in {"none", UnrecognizedMsg}
        /\ nresult.format =
              extractTransactionData(TRUE, OnlyCondFields(npayload)).format

\* a document that satisfies the facilitator_sponsored and the minimal
\* condition was tagged facilitator_sponsored
C9_Witness ==
    /\ nresult # NotCalled
    /\ IsSponsoredShape(npayload)
    /\ IsMinimalShape(npayload)
    /\ nresult.format = "facilitator_sponsored"

(* C10: a /verify request that gets as far as normalization with a payload *)
(* document of no recognized shape is answered HTTP 400, isValid:false,    *)
(* with the reason 'Invalid payload format: Unrecognized payload format.   *)
(* Available fields: ' listing exactly the fields present in the document, *)
(* and has made no ledger call.                                            *)
C10_UnrecognizedPayloadListsFields ==
    \A r \in Requests :
        (/\ endpoint[r] = "verify"
         /\ body[r].hasPaymentPayload /\ body[r].hasRequirements
         /\ body[r].network \in connections
         /\ body[r].hasPayload
         /\ FirstShape(body[r].payload) = "none") =>
            /\ pc[r] = "done"
            /\ Len(resp[r]) = 1
            /\ Response(r).http = 400
            /\ ~Response(r).ok
            /\ Response(r).reason =
                 "Invalid payload format: Unrecognized payload format. Available fields: "
            /\ Response(r).fields =
                 {f \in PayloadFields : body[r].payload[f] # ABSENT}
            /\ calls[r] = NoCalls

\* the listed fields include one that is present with a falsy value
C10_Witness ==
    \E r \in Requests :
        /\ endpoint[r] = "verify"
        /\ resp[r] # <<>>
        /\ Response(r).fields = {"signature", "transaction"}
        /\ body[r].payload["signature"] = FALSY

\* the fields of each recognized shape that the payload document carries
\* directly (spec section 3); authorization_only also carries
\* authorization.from/to/value/nonce
ShapeFields(format) ==
    CASE format = "facilitator_sponsored" ->
           {"userSignature", "facilitatorTransaction", "userPublicKey"}
      [] format = "minimal" -> {"signature", "transaction"}
      [] format = "full" ->
           {"signature", "transaction", "payer", "amount", "mint", "recipient",
            "blockhash", "memo"}
      [] format = "authorization_only" -> {"signature"}
      [] OTHER -> {}

\* the authorization object rebuilt from a normalized authorization_only
\* record
RebuiltAuthorization(data) ==
    IF /\ data["payer"] = "auth.from" /\ data["recipient"] = "auth.to"
       /\ data["amount"] = "auth.value" /\ data["memo"] = "auth.nonce"
    THEN AuthFull
    ELSE IF \A f \in {"payer", "recipient", "amount", "memo"} : data[f] = ABSENT
    THEN AuthEmpty
    ELSE "auth:other"

(* C11: for every recognized payload document, each field of its shape is  *)
(* in the normalized record with the value the document has for it, and    *)
(* for authorization_only the record's payer, recipient, amount and memo   *)
(* are authorization.from, to, value and nonce, so that the authorization  *)
(* object can be rebuilt from the record.                                  *)
C11_NormalizationLossless ==
    (nresult # NotCalled /\ nresult.error = "none") =>
        /\ nresult.format \in {"facilitator_sponsored", "minimal", "full",
                                "authorization_only"}
        /\ \A f \in ShapeFields(nresult.format) : nresult.data[f] = npayload[f]
        /\ nresult.format = "authorization_only" =>
              RebuiltAuthorization(nresult.data) = npayload["authorization"]

\* an authorization_only document with a full authorization object has
\* been normalized
C11_Witness ==
    /\ nresult # NotCalled
    /\ nresult.format = "authorization_only"
    /\ npayload["authorization"] = AuthFull
    /\ nresult.data["payer"] = "auth.from"
    /\ nresult.data["memo"] = "auth.nonce"

\* request r is a /settle request whose payload was tagged
\* authorization_only
SettlesAuthorization(r) ==
    endpoint[r] = "settle" /\ loc[r].format = "authorization_only"

\* what holds of an authorization_only settlement in every state
AuthorizationSettlementState(r) ==
    /\ calls[r]["sendRawTransaction"] = 0
    /\ calls[r]["getSignatureStatus"] = 0
    /\ hist[r].lookup = "null" =>
          /\ pc[r] = "done"
          /\ Len(resp[r]) = 1
          /\ Response(r).http = 400
          /\ ~Response(r).ok
          /\ Response(r).reason =
               "Settlement failed: Failed to verify existing transaction: "
          /\ Response(r).detail = "Transaction not found on blockchain"
          /\ Response(r).transaction = ABSENT

(* C12: a /settle request with an authorization_only payload never calls   *)
(* sendRawTransaction and never queries a status, and no step of it        *)
(* changes the ledger, whatever the lookup of its signature returns; when  *)
(* the lookup finds no transaction the request is answered HTTP 400,       *)
(* success:false, with the errorReason 'Settlement failed: Failed to       *)
(* verify existing transaction: Transaction not found on blockchain'.      *)
C12_AuthorizationNotFoundFails ==
    /\ [](\A r \in Requests :
            SettlesAuthorization(r) => AuthorizationSettlementState(r))
    /\ [][\A r \in Requests :
            (Acts(r) /\ endpoint'[r] = "settle"
               /\ loc'[r].format = "authorization_only") => ledger' = ledger]_vars

\* the lookup of an authorization_only settlement found nothing, on a
\* ledger that had taken an earlier broadcast
C12_Witness ==
    \E r \in Requests :
        /\ SettlesAuthorization(r)
        /\ hist[r].lookup = "null"
        /\ calls[r]["getTransaction"] = 1
        /\ pc[r] = "done"
        /\ ledger[TxOther] > 0

\* request r is a /verify request whose payload was tagged minimal or full
\* and whose embedded transaction decodes
VerifiesEmbedded(r) ==
    /\ endpoint[r] = "verify"
    /\ loc[r].format \in {"minimal", "full"}
    /\ ~DecodeThrows(loc[r].data["transaction"])

\* the lookup by signature returned a transaction
Found(r) == hist[r].lookup \in {"found", "foundErr"}

(* C13: a /verify request with a minimal or full payload whose transaction *)
(* decodes is accepted exactly when the simulation returned without an     *)
(* error and the lookup of the claimed signature returned no transaction;  *)
(* it is rejected with 'Transaction simulation failed' on a simulation     *)
(* error, without a lookup, and with 'Transaction already executed on      *)
(* blockchain' when the lookup returned a transaction.                     *)
C13_VerifyEmbeddedAcceptsIffFresh ==
    \A r \in Requests :
        VerifiesEmbedded(r) =>
            /\ hist[r].lookup # ABSENT => hist[r].simulation = "ok"
            /\ pc[r] = "done" =>
                  /\ Len(resp[r]) = 1
                  /\ Response(r).ok = (hist[r].simulation = "ok" /\ ~Found(r))
                  /\ Response(r).ok => Response(r).http = 200
                  /\ ~Response(r).ok => Response(r).http = 400
                  /\ hist[r].simulation = "err" =>
                        /\ Response(r).reason = "Transaction simulation failed: "
                        /\ calls[r]["getTransaction"] = 0
                  /\ Found(r) =>
                        Response(r).reason = "Transaction already executed on blockchain"

\* a full payload was rejected as already executed because the lookup
\* returned a transaction that had failed on chain
C13_Witness ==
    \E r \in Requests :
        /\ VerifiesEmbedded(r)
        /\ loc[r].format = "full"
        /\ pc[r] = "done"
        /\ hist[r].simulation = "ok"
        /\ hist[r].lookup = "foundErr"
        /\ Response(r).reason = "Transaction already executed on blockchain"

\* request r is a /verify request whose payload was tagged
\* authorization_only
VerifiesAuthorization(r) ==
    endpoint[r] = "verify" /\ loc[r].format = "authorization_only"

(* C14: a /verify request with an authorization_only payload never         *)
(* simulates; its only ledger call is one lookup of the claimed signature, *)
(* and it is accepted exactly when that lookup returned a transaction      *)
(* without an execution error.  It is rejected with HTTP 400 when the      *)
(* transaction is not found, when it is found with an execution error and  *)
(* when the lookup itself fails, each with its own reason.                 *)
C14_VerifyAuthorizationAcceptsIffFound ==
    \A r \in Requests :
        VerifiesAuthorization(r) =>
            /\ calls[r] = [NoCalls EXCEPT !["getTransaction"] = 1]
            /\ hist[r].simulation = ABSENT
            /\ pc[r] \in {"v_auth", "done"}
            /\ pc[r] = "done" =>
                  /\ Len(resp[r]) = 1
                  /\ Response(r).ok = (hist[r].lookup = "found")
                  /\ Response(r).ok => Response(r).http = 200
                  /\ ~Response(r).ok => Response(r).http = 400
                  /\ hist[r].lookup = "null" =>
                        Response(r).reason =
                          "Transaction not found on blockchain - payment may not have been submitted yet"
                  /\ hist[r].lookup = "foundErr" =>
                        Response(r).reason = "Transaction failed on blockchain: "
                  /\ hist[r].lookup = "throw" =>
                        Response(r).reason = "Unable to verify transaction on blockchain"

\* an authorization_only payload was rejected because the lookup itself
\* failed
C14_Witness ==
    \E r \in Requests :
        /\ VerifiesAuthorization(r)
        /\ pc[r] = "done"
        /\ hist[r].lookup = "throw"
        /\ ~Response(r).ok

\* the broadcast-equivalent actions of the /settle request r so far: its
\* sendRawTransaction calls and, for an authorization_only payload, its
\* lookups of the signature (for the other tags getTransaction is the
\* detail fetch that follows a confirmation)
BroadcastEquivalentActions(r) ==
    calls[r]["sendRawTransaction"]
        + (IF loc[r].format = "authorization_only"
           THEN calls[r]["getTransaction"] ELSE 0)

\* the /settle request body b passes every check that precedes the
\* broadcast or the lookup: a registered network, a recognized payload and,
\* for a tag with an embedded transaction, one that decodes, has a fee
\* payer and carries every required signature
PassesSettleChecks(b) ==
    /\ b.hasPaymentPayload
    /\ b.network \in {"solana-devnet", "solana-mainnet", "solana-testnet"}
    /\ b.hasPayload
    /\ FirstShape(b.payload) # "none"
    /\ FirstShape(b.payload) = "facilitator_sponsored" =>
          b.payload["facilitatorTransaction"] \in {TxFac, TxOther}
    /\ FirstShape(b.payload) \in {"minimal", "full"} =>
          b.payload["transaction"] \in {TxFac, TxOther}

(* C15 as stated: every /settle call that is over has performed exactly    *)
(* one broadcast-equivalent action.                                        *)
C15_ExactlyOneBroadcastEquivalent ==
    \A r \in Requests :
        (endpoint[r] = "settle" /\ Ended(r)) =>
            BroadcastEquivalentActions(r) = 1

(* C15 amended: a /settle call never performs more than one                *)
(* broadcast-equivalent action, never both a sendRawTransaction and the    *)
(* authorization lookup, and never a sendRawTransaction for an             *)
(* authorization_only payload; a call that passes the checks preceding the *)
(* broadcast has performed exactly one when it is over, a call that fails  *)
(* one of them none.                                                       *)
C15_AtMostOneBroadcastEquivalent ==
    \A r \in Requests :
        endpoint[r] = "settle" =>
            /\ BroadcastEquivalentActions(r) <= 1
            /\ loc[r].format = "authorization_only" =>
                  calls[r]["sendRawTransaction"] = 0
            /\ loc[r].format # "authorization_only" =>
                  calls[r]["getTransaction"] <= calls[r]["sendRawTransaction"]
            /\ (Ended(r) /\ PassesSettleChecks(body[r])) =>
                  BroadcastEquivalentActions(r) = 1
            /\ ~PassesSettleChecks(body[r]) =>
                  BroadcastEquivalentActions(r) = 0

\* a sponsored settlement whose one broadcast failed at the ledger is over
C15_Witness ==
    \E r \in Requests :
        /\ endpoint[r] = "settle"
        /\ pc[r] = "done"
        /\ loc[r].format = "facilitator_sponsored"
        /\ calls[r]["sendRawTransaction"] = 1
        /\ calls[r]["getSignatureStatus"] = 0
        /\ ~Response(r).ok

\* the /settle request body b names a network outside the registry
OutsideRegistry(b) ==
    b.network \notin {"solana-devnet", "solana-mainnet", "solana-testnet"}

\* the /settle request body b carries no payload document or one of no
\* recognized shape
Malformed(b) == ~b.hasPayload \/ FirstShape(b.payload) = "none"

(* C16: a /settle request whose paymentPayload names a network outside the *)
(* registry, or carries a payload of no recognized shape, has its response *)
(* from the step that receives it: HTTP 400, success:false, with an        *)
(* errorReason, and it never issues a ledger call, sendRawTransaction      *)
(* included.  The reason is the unsupported-network one for a network the  *)
(* registry lookup yields nothing for, and the format one for a malformed  *)
(* payload on a registered network.                                        *)
C16_SettleRejectsBeforeBroadcast ==
    \A r \in Requests :
        (/\ endpoint[r] = "settle"
         /\ body[r].hasPaymentPayload
         /\ OutsideRegistry(body[r]) \/ Malformed(body[r])) =>
            /\ pc[r] = "done"
            /\ calls[r] = NoCalls
            /\ Len(resp[r]) = 1
            /\ Response(r).http = 400
            /\ ~Response(r).ok
            /\ Truthy(Response(r).reason)
            /\ Response(r).transaction = ABSENT
            /\ body[r].network \in {ABSENT, NonStringNetwork, "ethereum", "solana-unknown"} =>
                  Response(r).reason =
                    "Settlement failed: Invalid settlement request: unsupported network"
            /\ (~OutsideRegistry(body[r]) /\ body[r].hasPayload) =>
                  Response(r).reason =
                    "Settlement failed: Invalid payload format: Unrecognized payload format. Available fields: "

\* a payload of no recognized shape that carries a transaction field was
\* rejected on a registered network, on a ledger that had taken an earlier
\* broadcast
C16_Witness ==
    \E r \in Requests :
        /\ endpoint[r] = "settle"
        /\ pc[r] = "done"
        /\ ~OutsideRegistry(body[r])
        /\ body[r].hasPayload
        /\ FirstShape(body[r].payload) = "none"
        /\ Truthy(body[r].payload["transaction"])
        /\ Response(r).http = 400
        /\ ledger[TxOther] > 0

\* the first check of /verify that the request body b fails, in the order
\* presence, network prefix, registry, normalization ("none": b passes all)
FirstFailedCheck(b) ==
    IF ~b.hasPaymentPayload \/ ~b.hasRequirements THEN "presence"
    ELSE IF b.network \notin {"solana-devnet", "solana-mainnet", "solana-testnet",
                              "solana-unknown"}
    THEN "prefix"
    ELSE IF OutsideRegistry(b) THEN "registry"
    ELSE IF Malformed(b) THEN "normalization"
    ELSE "none"

(* C17: a /verify request is checked in the order presence of              *)
(* paymentPayload and paymentRequirements, network prefix, registry        *)
(* lookup, payload normalization, and only then issues a ledger call: a    *)
(* request that fails a check is answered HTTP 400, isValid:false, in the  *)
(* step that receives it, with the reason of the first check it fails and  *)
(* without any ledger call.  A network that is absent or does not start    *)
(* with 'solana-' gets the prefix reason, never the registry one.          *)
C17_VerifyCheckOrder ==
    \A r \in Requests :
        endpoint[r] = "verify" =>
            LET failed == FirstFailedCheck(body[r]) IN
            /\ calls[r] # NoCalls => failed = "none"
            /\ failed # "none" =>
                  /\ pc[r] = "done"
                  /\ Len(resp[r]) = 1
                  /\ Response(r).http = 400
                  /\ ~Response(r).ok
            /\ failed = "presence" =>
                  Response(r).reason = "Missing paymentPayload or paymentRequirements"
            /\ (failed = "prefix" /\ body[r].network # NonStringNetwork) =>
                  Response(r).reason =
                    "Unsupported network - only Solana networks supported"
            /\ (failed = "prefix" /\ body[r].network = NonStringNetwork) =>
                  Response(r).reason = "Verification failed: "
            /\ failed = "registry" =>
                  /\ Response(r).reason = "Unsupported network: "
                  /\ Response(r).detail = body[r].network
            /\ failed = "normalization" =>
                  Response(r).reason \in
                    {"Invalid payload format: Missing payload in payment",
                     "Invalid payload format: Unrecognized payload format. Available fields: "}

\* a request that fails the prefix check and the normalization was given
\* the prefix reason
C17_Witness ==
    \E r \in Requests :
        /\ endpoint[r] = "verify"
        /\ pc[r] = "done"
        /\ body[r].hasPaymentPayload /\ body[r].hasRequirements
        /\ body[r].network = "ethereum"
        /\ Malformed(body[r])
        /\ Response(r).reason = "Unsupported network - only Solana networks supported"

\* the encoded transaction enc has a required signature slot that is still
\* null: serializing it with requireAllSignatures fails
HasUnsignedSlot(enc) == enc = TxUnsigned

(* C18: a /create-sponsored-transaction request that is over has either    *)
(* success:true with a transaction whose fee payer is the facilitator and  *)
(* which has an unsigned slot left for the payer, or HTTP 400,             *)
(* success:false, with an error and no transaction.                        *)
C18_CreateAllOrNothing ==
    \A r \in Requests :
        (endpoint[r] = "create" /\ Ended(r)) =>
            /\ Len(resp[r]) = 1
            /\ \/ /\ Response(r).ok
                  /\ Response(r).http = 200
                  /\ Truthy(Response(r).transaction)
                  /\ FeePayerOf(Response(r).transaction) = facilitatorKeypair
                  /\ HasUnsignedSlot(Response(r).transaction)
               \/ /\ ~Response(r).ok
                  /\ Response(r).http = 400
                  /\ Truthy(Response(r).reason)
                  /\ Response(r).transaction = ABSENT

\* the settlement attempt of request r has broadcast and not yet returned
Polling(r) ==
    endpoint[r] = "settle" /\ pc[r] \in {"s_status", "s_sleep", "s_detail"}

(* C19: with ledger calls that return and a clock that keeps advancing, a  *)
(* settlement attempt that has broadcast leaves the polling loop and the   *)
(* /settle request gets its one response; the attempt has then either been *)
(* confirmed, and is answered success:true, or not, and is answered with   *)
(* the timeout reason.                                                     *)
C19_SettlementTerminates ==
    /\ \A r \in Requests :
          Polling(r) ~> (pc[r] = "done" /\ Len(resp[r]) = 1)
    /\ [](\A r \in Requests :
            ReceiptReturned(r) =>
                \/ loc[r].confirmed /\ Response(r).ok
                \/ /\ ~loc[r].confirmed
                   /\ ~Response(r).ok
                   /\ Response(r).reason \in TimeoutReasons)

\* an attempt whose status queries carried an execution error, the path
\* of the loop that does not sleep, has ended on the timeout bound
C19_Witness ==
    \E r \in Requests :
        /\ ReceiptReturned(r)
        /\ hist[r].sawErr
        /\ ~loc[r].confirmed
        /\ Response(r).reason \in TimeoutReasons

\* request r is a /verify request that was accepted
Accepted(r) ==
    endpoint[r] = "verify" /\ resp[r] # <<>> /\ Response(r).ok

\* what every acceptance reports besides the payer
AcceptanceFlags(r) ==
    /\ Len(resp[r]) = 1
    /\ Response(r).http = 200
    /\ Response(r).reason = ABSENT
    /\ Response(r).gasSponsoredByFacilitator
          = (FirstShape(body[r].payload) = "facilitator_sponsored")

\* payload.authorization?.from of a payload document, read as a payer
AuthorizationFrom(p) ==
    IF p["authorization"] = AuthFull THEN "auth.from" ELSE "unknown"

(* C20 as stated: every /verify acceptance reports no invalidReason,       *)
(* gasSponsoredByFacilitator exactly for facilitator_sponsored, and as     *)
(* payer the facilitator for facilitator_sponsored, the extracted payer    *)
(* field for full and authorization_only, and 'unknown' for minimal.       *)
C20_AcceptanceReportsPayer ==
    \A r \in Requests :
        Accepted(r) =>
            /\ AcceptanceFlags(r)
            /\ Response(r).payer =
                 CASE loc[r].format = "facilitator_sponsored" -> facilitatorKeypair
                   [] loc[r].format = "minimal" -> "unknown"
                   [] OTHER -> loc[r].data["payer"]

(* C20 amended: every /verify acceptance reports no invalidReason,         *)
(* gasSponsoredByFacilitator exactly for facilitator_sponsored, and as     *)
(* payer the facilitator for facilitator_sponsored and otherwise the       *)
(* extracted payer field when it is set, else the payload's                *)
(* authorization.from when that is set, else 'unknown': the payload's      *)
(* payer for full, and authorization.from or 'unknown' for                 *)
(* authorization_only and for minimal.                                     *)
C20_AcceptanceReportsResolvedPayer ==
    \A r \in Requests :
        Accepted(r) =>
            /\ AcceptanceFlags(r)
            /\ Response(r).payer =
                 CASE FirstShape(body[r].payload) = "facilitator_sponsored" ->
                        facilitatorKeypair
                   [] FirstShape(body[r].payload) = "full" ->
                        body[r].payload["payer"]
                   [] OTHER -> AuthorizationFrom(body[r].payload)

\* a minimal payload that carries an authorization object was accepted
\* with authorization.from as its payer
C20_Witness ==
    \E r \in Requests :
        /\ Accepted(r)
        /\ loc[r].format = "minimal"
        /\ body[r].payload["authorization"] = AuthFull
        /\ Response(r).payer = "auth.from"

\* request r is a /settle request whose payload was tagged minimal or full
SettlesEmbedded(r) ==
    endpoint[r] = "settle" /\ loc[r].format \in {"minimal", "full"}

\* both slots hold a /settle request with the same payload
SamePayloadTwice ==
    /\ \A r \in Requests : endpoint[r] = "settle"
    /\ \A r, q \in Requests : body[r] = body[q]

(* C21: of two /settle requests presenting the same minimal or full        *)
(* payload, each reaches the broadcast whatever the other has done: a      *)
(* request that has arrived has issued its one sendRawTransaction, with no *)
(* simulation and no lookup before it, and is never answered without       *)
(* having broadcast.  (That the same transaction is then taken twice by    *)
(* the ledger is the witness.)                                             *)
C21_ConcurrentSettlesBothBroadcast ==
    \A r \in Requests :
        endpoint[r] = "settle" =>
            /\ SettlesEmbedded(r)
            /\ calls[r]["sendRawTransaction"] = 1
            /\ calls[r]["simulateTransaction"] = 0
            /\ pc[r] = "s_send" => calls[r]["getTransaction"] = 0

\* two requests with the same payload are in flight at once and the ledger
\* has taken their transaction twice
C21_Witness ==
    /\ SamePayloadTwice
    /\ \A r \in Requests : pc[r] \in {"s_status", "s_sleep", "s_detail"}
    /\ \E enc \in EncodedTxs :
          /\ \A r \in Requests : loc[r].tx = enc
          /\ ledger[enc] = 2

(* C22: between two consecutive getSignatureStatus calls of a settlement   *)
(* attempt the loop waits the interval: a step in which a status query     *)
(* returns never leaves the attempt waiting for the next status query      *)
(* without the setTimeout in between.                                      *)
C22_StatusQueriesSpacedByInterval ==
    [][\A r \in Requests :
         (endpoint[r] = "settle" /\ pc[r] = "s_status" /\ Acts(r)) =>
            pc'[r] # "s_status"]_vars

\* the sendRawTransaction call of request r has failed
BroadcastFailed(r) ==
    endpoint[r] = "settle" /\ hist[r].send \in {"rejected", "lost"}

(* C23: when the sendRawTransaction call of a /settle request fails, the   *)
(* request is over in that step: it has issued one sendRawTransaction and  *)
(* no status query or detail fetch, and its one response is HTTP 400,      *)
(* success:false, with the broadcast's error as errorReason and no         *)
(* transaction.                                                            *)
C23_BroadcastErrorIsFatal ==
    \A r \in Requests :
        BroadcastFailed(r) =>
            /\ pc[r] = "done"
            /\ calls[r] = [NoCalls EXCEPT !["sendRawTransaction"] = 1]
            /\ hist[r].lastStatus = ABSENT
            /\ ~loc[r].confirmed
            /\ Len(resp[r]) = 1
            /\ Response(r).http = 400
            /\ ~Response(r).ok
            /\ Response(r).reason = "Settlement failed: sendRawTransaction"
            /\ Response(r).transaction = ABSENT

\* the broadcast of a facilitator_sponsored settlement was refused by the
\* ledger and the request answered
C23_Witness ==
    \E r \in Requests :
        /\ BroadcastFailed(r)
        /\ hist[r].send = "rejected"
        /\ loc[r].format = "facilitator_sponsored"
        /\ ledger[loc[r].tx] = 0
        /\ pc[r] = "done"

\* the receipt of request r as it stands after the detail fetch
ConfirmedReceipt(r) ==
    /\ loc[r].confirmed
    /\ loc[r].signature = SigOf(loc[r].tx)
    /\ loc[r].confirmationStatus \in {"confirmed", "finalized"}
    /\ loc[r].confirmationStatus = hist[r].lastStatus

(* C24: a settlement attempt whose status query observed confirmed or      *)
(* finalized without an execution error fetches the details, and whatever  *)
(* the fetch returns the receipt is confirmed:true with the broadcast's    *)
(* signature and the observed status, and /settle answers success:true     *)
(* with them; after a fetch that failed or found nothing, slot, blockTime  *)
(* and fees are unset.  The step in which the fetch returns changes none   *)
(* of confirmed, signature and confirmationStatus.                         *)
C24_DetailFetchIsBestEffort ==
    /\ [](\A r \in Requests :
            (endpoint[r] = "settle" /\ hist[r].detail # ABSENT) =>
                /\ hist[r].sawConfirmedOk
                /\ pc[r] = "done"
                /\ ConfirmedReceipt(r)
                /\ Response(r).ok
                /\ Response(r).transaction = loc[r].signature
                /\ Response(r).confirmationStatus = loc[r].confirmationStatus
                /\ hist[r].detail \in {"throw", "null"} =>
                      /\ ~Truthy(loc[r].slot)
                      /\ ~Truthy(loc[r].blockTime)
                      /\ ~Truthy(loc[r].fees)
                      /\ ~Truthy(Response(r).slot)
                /\ hist[r].detail = "found" => loc[r].slot = "txInfo.slot")
    /\ [][\A r \in Requests :
            (pc[r] = "s_detail" /\ Acts(r)) =>
                /\ loc[r].confirmed /\ loc'[r].confirmed
                /\ loc'[r].signature = loc[r].signature
                /\ loc'[r].confirmationStatus = loc[r].confirmationStatus]_vars

\* a finalized settlement whose detail fetch failed was answered
\* success:true
C24_Witness ==
    \E r \in Requests :
        /\ ReceiptReturned(r)
        /\ hist[r].detail = "throw"
        /\ loc[r].confirmed
        /\ loc[r].confirmationStatus = "finalized"
        /\ Response(r).ok

\* the ledger has shown the payment of the /settle request r confirmed: a
\* status query observed confirmed or finalized without an execution error
\* or, for authorization_only, the lookup found the transaction without one
ObservedSettled(r) ==
    IF loc[r].format = "authorization_only"
    THEN hist[r].lookup = "found"
    ELSE hist[r].sawConfirmedOk

(* C25: a /settle request that is over has one response: success:true,     *)
(* with a confirmed receipt and userPaidGas the negation of                *)
(* gasSponsoredByFacilitator, exactly when the ledger has shown the        *)
(* payment confirmed, and HTTP 400 with success:false in every other       *)
(* outcome.                                                                *)
C25_SuccessOnlyWhenConfirmed ==
    \A r \in Requests :
        (endpoint[r] = "settle" /\ Ended(r)) =>
            /\ Len(resp[r]) = 1
            /\ Response(r).ok = ObservedSettled(r)
            /\ Response(r).ok =>
                  /\ Response(r).http = 200
                  /\ loc[r].confirmed
                  /\ Response(r).userPaidGas = ~Response(r).gasSponsoredByFacilitator
            /\ ~Response(r).ok => Response(r).http = 400

\* the lookup by signature of the /verify request r raised, and the handler
\* has responded
LookupRaised(r) ==
    /\ endpoint[r] = "verify"
    /\ pc[r] = "done"
    /\ hist[r].lookup = "throw"

(* C26: when the lookup by signature raises, a /verify request with a      *)
(* minimal or full payload is accepted, as when the lookup returns no      *)
(* transaction, while one with an authorization_only payload is rejected   *)
(* with HTTP 400 and 'Unable to verify transaction on blockchain'.         *)
C26_ReplayLookupFailsOpen ==
    \A r \in Requests :
        LookupRaised(r) =>
            /\ Len(resp[r]) = 1
            /\ loc[r].format \in {"minimal", "full", "authorization_only"}
            /\ VerifiesEmbedded(r) =>
                  /\ Response(r).ok
                  /\ Response(r).http = 200
                  /\ Response(r).reason = ABSENT
                  /\ hist[r].simulation = "ok"
            /\ VerifiesAuthorization(r) =>
                  /\ ~Response(r).ok
                  /\ Response(r).http = 400
                  /\ Response(r).reason = "Unable to verify transaction on blockchain"

\* a /verify request with a minimal or full payload has been accepted
\* although its replay lookup raised
C26_Witness ==
    \E r \in Requests :
        /\ LookupRaised(r)
        /\ VerifiesEmbedded(r)
        /\ Accepted(r)
        /\ calls[r]["getTransaction"] = 1

====
